---- MODULE Spec2Model ----
(***************************************************************************)
(* Form builder (src/src/index.tsx).  The component state is the flow      *)
(* (steps), the selected step (currentStepIndex) and field                 *)
(* (selectedFieldId), the preview switch, the answer record (previewData), *)
(* the status line (saveStatus), the generated schemas (jsonOutput), the   *)
(* saved flows and the exported document.  Handlers are actions; the pure  *)
(* helpers (isFieldVisible, validateCurrentStep, convertToExpression,      *)
(* generateFormData, processTemplateValue) are operators.  The switches    *)
(* that only open panels or ask for a confirmation (showFlowManager,       *)
(* showTemplateHelper, hasUnsavedWork) are left to the user's choice.      *)
(***************************************************************************)
EXTENDS Integers, Sequences, FiniteSets, TLC

VARIABLES steps, currentStepIndex, isNewFlow, previewMode, previewData,
          saveStatus, jsonOutput, nav,
          selectedFieldId, stepRefs, savedFlows, exported, template,
          currentFlowName

\* the state of the editor, which the preview handlers leave alone
editorVars == <<stepRefs, savedFlows, exported, template, currentFlowName>>

vars == <<steps, currentStepIndex, isNewFlow, previewMode, previewData,
          saveStatus, jsonOutput, nav, selectedFieldId, editorVars>>

(***************************************************************************)
(* Bounds of the model.                                                    *)
(***************************************************************************)
MaxConds == 2
MaxSteps == 3
MaxFields == 2
MaxSaved == 1

(***************************************************************************)
(* JavaScript values.  An optional string attribute that is undefined is   *)
(* NoString; an answer is a tagged value, and a key that previewData does  *)
(* not hold reads as Undefined.                                            *)
(***************************************************************************)
NoString == "<undefined>"

Undefined == [t |-> "undefined"]

Str(s) == [t |-> "string", s |-> s]

Arr(a) == [t |-> "array", items |-> a]

Get(data, key) == IF key \in DOMAIN data THEN data[key] ELSE Undefined

\* Array.prototype.includes on an array of strings
includes(a, v) == \E i \in 1..Len(a) : a[i] = v

\* Array.prototype.filter(x => x !== v)
RECURSIVE without(_, _)
without(a, v) ==
  IF a = <<>> THEN <<>>
  ELSE IF Head(a) = v THEN without(Tail(a), v)
       ELSE <<Head(a)>> \o without(Tail(a), v)

\* a falsy optional string: undefined or ""
Falsy(s) == s = NoString \/ s = ""

\* a || b on optional strings
OrElse(a, b) == IF Falsy(a) THEN b ELSE a

Null == [t |-> "null"]

\* field.options || [] : the optional attribute is <<>> or <<options>>
optionsOf(field) == IF field.options = <<>> THEN <<>> ELSE field.options[1]

(***************************************************************************)
(* The flow.  A step's optional navigationRule is <<>> or <<rule>>.        *)
(***************************************************************************)
defaultStep ==
  [id |-> "step1", name |-> "Page 1",
   description |-> "First page description", fields |-> <<>>,
   actionName |-> "submitPage1", summaryCheckExpression |-> "true",
   navigationRule |-> <<>>]

parsedSteps == IF Len(steps) = 0 /\ isNewFlow THEN <<defaultStep>> ELSE steps

\* steps of parsedSteps are indexed from 0 in the code, from 1 here
HasCurrentStep == currentStepIndex + 1 \in 1..Len(parsedSteps)

currentStep == parsedSteps[currentStepIndex + 1]

\* fields.find(f => f.id === id): 0 when there is none
RECURSIVE findFieldFrom(_, _, _)
findFieldFrom(fields, id, i) ==
  IF i > Len(fields) THEN 0
  ELSE IF fields[i].id = id THEN i
       ELSE findFieldFrom(fields, id, i + 1)

findField(fields, id) == findFieldFrom(fields, id, 1)

\* parsedSteps.findIndex(s => s.name === name): -1 when there is none
RECURSIVE findStepFrom(_, _, _)
findStepFrom(ss, name, i) ==
  IF i > Len(ss) THEN -1
  ELSE IF ss[i].name = name THEN i - 1
       ELSE findStepFrom(ss, name, i + 1)

\* mutant of findStepIndex: 0 instead of -1 when no step has the name
findStepIndex_Zero(ss, name) ==
  IF findStepFrom(ss, name, 1) = -1 THEN 0 ELSE findStepFrom(ss, name, 1)

\* mutant of findStepIndex: the position counted from 1
findStepIndex_OneBased(ss, name) ==
  IF findStepFrom(ss, name, 1) = -1 THEN -1 ELSE findStepFrom(ss, name, 1) + 1

findStepIndex(ss, name) == findStepFrom(ss, name, 1)

(***************************************************************************)
(* Field visibility.                                                       *)
(***************************************************************************)
isFieldVisibleIn(step, data, field) ==
  IF Falsy(field.dependsOn) \/ Falsy(field.showWhen) THEN TRUE
  ELSE LET dependentValue == Get(data, field.dependsOn)
           p == findField(step.fields, field.dependsOn)
       IN IF p = 0 THEN FALSE
          ELSE IF dependentValue.t \in {"undefined", "null"} THEN FALSE
          ELSE IF dependentValue.t = "string" /\ dependentValue.s = "" THEN FALSE
          ELSE IF step.fields[p].type \in {"radio", "select"}
               THEN dependentValue.t = "string" /\ dependentValue.s = field.showWhen
          ELSE IF step.fields[p].type = "checkbox"
               THEN dependentValue.t = "array"
                    /\ includes(dependentValue.items, field.showWhen)
          ELSE dependentValue.t = "string" /\ dependentValue.s = field.showWhen

isFieldVisible(field) == isFieldVisibleIn(currentStep, previewData, field)

(***************************************************************************)
(* Step validation: the list of error messages.                            *)
(***************************************************************************)
valueMissing(value) ==
  \/ value.t = "undefined"
  \/ value.t = "null"
  \/ (value.t = "string" /\ value.s = "")
  \/ (value.t = "array" /\ Len(value.items) = 0)

\* mutant of requiredMissing: a hidden field is validated too
requiredMissing_Hidden(step, data, field) ==
  /\ field.required
  /\ field.type # "title"
  /\ valueMissing(Get(data, field.id))

\* the test of one field in the forEach of the preview branch
requiredMissing(step, data, field) ==
  /\ field.required
  /\ field.type # "title"
  /\ isFieldVisibleIn(step, data, field)
  /\ valueMissing(Get(data, field.id))

RECURSIVE previewErrors(_, _, _)
previewErrors(step, data, i) ==
  IF i > Len(step.fields) THEN <<>>
  ELSE LET field == step.fields[i]
       IN (IF requiredMissing(step, data, field)
           THEN <<"\"" \o field.title \o "\" is required">>
           ELSE <<>>)
          \o previewErrors(step, data, i + 1)

RECURSIVE authoringErrors(_, _)
authoringErrors(step, i) ==
  IF i > Len(step.fields) THEN <<>>
  ELSE LET field == step.fields[i]
       IN (IF field.title = ""
           THEN <<"Field \"" \o field.id \o "\" needs a title">> ELSE <<>>)
          \o (IF field.type \in {"select", "radio", "checkbox"}
                 /\ Len(optionsOf(field)) = 0
              THEN <<"\"" \o field.title \o "\" needs options">> ELSE <<>>)
          \o authoringErrors(step, i + 1)

\* mutant of validateStep: the authoring checks whatever the mode
validateStep_Authoring(step, data, preview) == authoringErrors(step, 1)

validateStep(step, data, preview) ==
  IF preview THEN previewErrors(step, data, 1) ELSE authoringErrors(step, 1)

validateCurrentStep ==
  IF ~HasCurrentStep THEN <<>>
  ELSE validateStep(currentStep, previewData, previewMode)

(***************************************************************************)
(* Navigation rule conversion.  The expression string is kept as the       *)
(* sequence of its lexical tokens; Lit(s) is the quoted literal 's'.       *)
(***************************************************************************)
Lit(s) == <<"'", s, "'">>

\* rule.conditions.map(...).join(" : ")
RECURSIVE joinConditions(_, _, _, _)
joinConditions(conditions, fieldId, isCheckbox, i) ==
  IF i > Len(conditions) THEN <<>>
  ELSE (IF i > 1 THEN <<":">> ELSE <<>>)
       \o (IF isCheckbox
           THEN <<"formData", ".", fieldId, ".", "includes", "(">>
                \o Lit(conditions[i].value) \o <<")">>
           ELSE <<"formData", ".", fieldId, "===">> \o Lit(conditions[i].value))
       \o <<"?">> \o Lit(conditions[i].nextStepName)
       \o joinConditions(conditions, fieldId, isCheckbox, i + 1)

\* mutant of convertToExpressionIn: the equality test for every driver kind
convertToExpressionIn_Equality(step, rule) ==
  IF Falsy(rule.fieldId) \/ Len(rule.conditions) = 0 THEN Lit("continue")
  ELSE LET p == findField(step.fields, rule.fieldId)
       IN IF p = 0 THEN Lit("continue")
          ELSE joinConditions(rule.conditions, rule.fieldId, FALSE, 1)
               \o <<":">> \o Lit(OrElse(rule.defaultStepName, "continue"))

convertToExpressionIn(step, rule) ==
  IF Falsy(rule.fieldId) \/ Len(rule.conditions) = 0 THEN Lit("continue")
  ELSE LET p == findField(step.fields, rule.fieldId)
       IN IF p = 0 THEN Lit("continue")
          ELSE joinConditions(rule.conditions, rule.fieldId,
                              step.fields[p].type = "checkbox", 1)
               \o <<":">> \o Lit(OrElse(rule.defaultStepName, "continue"))

convertToExpression(rule) == convertToExpressionIn(currentStep, rule)

\* actionSchema.nextFlowDeterminationExpression of generateAllSchemas
nextFlowDeterminationExpression(step) ==
  IF step.navigationRule # <<>>
  THEN convertToExpressionIn(step, step.navigationRule[1])
  ELSE Lit("continue")

(***************************************************************************)
(* JavaScript's evaluation of the expression against an answer record:     *)
(* a right-nested chain  test ? 'a' : test ? 'b' : 'c'.  A member call on  *)
(* a value that has no includes method throws.                             *)
(***************************************************************************)
TypeError == "<TypeError>"

RECURSIVE evalExpression(_, _)
evalExpression(toks, formData) ==
  IF Len(toks) = 3 THEN toks[2]
  ELSE LET value == Get(formData, toks[3])
       IN IF toks[4] = "==="
          THEN IF value.t = "string" /\ value.s = toks[6]
               THEN toks[10]
               ELSE evalExpression(SubSeq(toks, 13, Len(toks)), formData)
          ELSE IF value.t = "array"
               THEN IF includes(value.items, toks[8])
                    THEN toks[13]
                    ELSE evalExpression(SubSeq(toks, 16, Len(toks)), formData)
          ELSE IF value.t = "string"
               \* String.prototype.includes: substring test
               THEN IF toks[8] = "" \/ value.s = toks[8]
                    THEN toks[13]
                    ELSE evalExpression(SubSeq(toks, 16, Len(toks)), formData)
          ELSE TypeError

(***************************************************************************)
(* Next-step resolution of executeNavigation.                              *)
(***************************************************************************)
conditionMatches(field, fieldValue, cond) ==
  IF field.type = "checkbox"
  THEN LET selectedValues ==
             IF fieldValue.t = "array" THEN fieldValue.items ELSE <<>>
       IN includes(selectedValues, cond.value)
  ELSE fieldValue.t = "string" /\ fieldValue.s = cond.value

\* mutant of findCondition: the last match instead of the first
RECURSIVE findCondition_Last(_, _, _, _)
findCondition_Last(conditions, field, fieldValue, i) ==
  IF i > Len(conditions) THEN 0
  ELSE LET later == findCondition_Last(conditions, field, fieldValue, i + 1)
       IN IF later # 0 THEN later
          ELSE IF conditionMatches(field, fieldValue, conditions[i]) THEN i
               ELSE 0

\* rule.conditions.find(...): the position of the first match, 0 when none
RECURSIVE findCondition(_, _, _, _)
findCondition(conditions, field, fieldValue, i) ==
  IF i > Len(conditions) THEN 0
  ELSE IF conditionMatches(field, fieldValue, conditions[i]) THEN i
       ELSE findCondition(conditions, field, fieldValue, i + 1)

resolveTarget(rule, field, fieldValue) ==
  LET matchedCondition == findCondition(rule.conditions, field, fieldValue, 1)
  IN IF matchedCondition # 0
     THEN rule.conditions[matchedCondition].nextStepName
     ELSE OrElse(rule.defaultStepName, "continue")

\* mutant of driverIncomplete: an empty sequence counts as an answer
driverIncomplete_EmptyArray(step, rule, data) ==
  LET fieldValue == Get(data, rule.fieldId)
  IN \/ findField(step.fields, rule.fieldId) = 0
     \/ fieldValue.t = "undefined"
     \/ (fieldValue.t = "string" /\ fieldValue.s = "")

\* the driver answer with which executeNavigation refuses to resolve
driverIncomplete(step, rule, data) ==
  LET fieldValue == Get(data, rule.fieldId)
  IN \/ findField(step.fields, rule.fieldId) = 0
     \/ fieldValue.t = "undefined"
     \/ (fieldValue.t = "string" /\ fieldValue.s = "")
     \/ (fieldValue.t = "array" /\ Len(fieldValue.items) = 0)

EmptyData == [k \in {} |-> Undefined]

\* mutant of continueOutcome: advance without the last-step test
continueOutcome_Always(ss, idx, data, status, target) ==
  [index |-> idx + 1, data |-> EmptyData, status |-> status,
   target |-> target, result |-> "continue"]

\* the "continue" branch: advance, or complete on the last step
continueOutcome(ss, idx, data, status, target) ==
  IF idx < Len(ss) - 1
  THEN [index |-> idx + 1, data |-> EmptyData, status |-> status,
        target |-> target, result |-> "continue"]
  ELSE [index |-> idx, data |-> data, status |-> "Form Complete!",
        target |-> target, result |-> "complete"]

\* mutant of targetOutcome: 'skip' moves one step on
targetOutcome_SkipOne(ss, idx, data, status, targetStep) ==
  IF targetStep = "continue"
  THEN continueOutcome(ss, idx, data, status, targetStep)
  ELSE IF targetStep = "end"
  THEN [index |-> idx, data |-> data,
        status |-> "Form ended based on selection",
        target |-> targetStep, result |-> "ended"]
  ELSE IF targetStep = "skip"
  THEN [index |-> IF idx < Len(ss) - 1 THEN idx + 1 ELSE idx,
        data |-> EmptyData, status |-> status,
        target |-> targetStep, result |-> "skipped"]
  ELSE LET targetStepIndex == findStepIndex(ss, targetStep)
       IN IF targetStepIndex # -1
          THEN [index |-> targetStepIndex, data |-> EmptyData,
                status |-> status, target |-> targetStep, result |-> "jump"]
          ELSE [index |-> idx, data |-> data,
                status |-> "Target \"" \o targetStep \o "\" not found",
                target |-> targetStep, result |-> "notfound"]

\* the branch on the resolved target
targetOutcome(ss, idx, data, status, targetStep) ==
  IF targetStep = "continue"
  THEN continueOutcome(ss, idx, data, status, targetStep)
  ELSE IF targetStep = "end"
  THEN [index |-> idx, data |-> data,
        status |-> "Form ended based on selection",
        target |-> targetStep, result |-> "ended"]
  ELSE IF targetStep = "skip"
  THEN [index |-> Len(ss) - 1, data |-> EmptyData, status |-> status,
        target |-> targetStep, result |-> "skipped"]
  ELSE LET targetStepIndex == findStepIndex(ss, targetStep)
       IN IF targetStepIndex # -1
          THEN [index |-> targetStepIndex, data |-> EmptyData,
                status |-> status, target |-> targetStep, result |-> "jump"]
          ELSE [index |-> idx, data |-> data,
                status |-> "Target \"" \o targetStep \o "\" not found",
                target |-> targetStep, result |-> "notfound"]

\* the whole handler, as a function of the state it reads
navigationOutcome(ss, idx, data, status, preview) ==
  LET step == ss[idx + 1]
      errors == validateStep(step, data, preview)
  IN IF Len(errors) # 0
     THEN [index |-> idx, data |-> data,
           status |-> ToString(Len(errors)) \o " validation error(s)",
           target |-> NoString, result |-> "validation"]
     ELSE IF step.navigationRule = <<>>
     THEN continueOutcome(ss, idx, data, status, NoString)
     ELSE LET rule == step.navigationRule[1]
          IN IF driverIncomplete(step, rule, data)
             THEN [index |-> idx, data |-> data,
                   status |-> "Please complete required fields",
                   target |-> NoString, result |-> "incomplete"]
             ELSE targetOutcome(ss, idx, data, status,
                    resolveTarget(rule,
                      step.fields[findField(step.fields, rule.fieldId)],
                      Get(data, rule.fieldId)))

(***************************************************************************)
(* Field construction.  An optional attribute that is undefined is <<>>,   *)
(* and <<v>> when it holds v; defaultValue is a tagged value.  The id of a *)
(* new field is derived from its title word by word.                       *)
(***************************************************************************)
FIELD_TYPES ==
  {"title", "text", "textarea", "select", "radio", "checkbox", "file",
   "readonly"}

getDefaultWidget(type) ==
  CASE type = "text" -> "text"
    [] type = "textarea" -> "textarea"
    [] type = "select" -> "select"
    [] type = "radio" -> "radio"
    [] type = "checkbox" -> "checkboxes"
    [] type = "file" -> "file"
    [] type = "readonly" -> "textarea"
    [] OTHER -> "text"

\* the title addField gives a field of the kind
baseTitle(fieldType) ==
  CASE fieldType = "title" -> "Section Title"
    [] fieldType = "text" -> "Text Input"
    [] fieldType = "textarea" -> "Long Text"
    [] fieldType = "select" -> "Select from List"
    [] fieldType = "radio" -> "Choose Option"
    [] fieldType = "checkbox" -> "Select Multiple"
    [] fieldType = "file" -> "Upload Files"
    [] fieldType = "readonly" -> "Read-only Text"

\* title.replace(/[^a-zA-Z0-9\s]/g, "").split(" ") on the titles of addField
titleWords(title) ==
  CASE title = "Section Title" -> <<"Section", "Title">>
    [] title = "Text Input" -> <<"Text", "Input">>
    [] title = "Long Text" -> <<"Long", "Text">>
    [] title = "Select from List" -> <<"Select", "from", "List">>
    [] title = "Choose Option" -> <<"Choose", "Option">>
    [] title = "Select Multiple" -> <<"Select", "Multiple">>
    [] title = "Upload Files" -> <<"Upload", "Files">>
    [] title = "Read-only Text" -> <<"Readonly", "Text">>
    [] title = "" -> <<"">>

\* word.toLowerCase()
toLowerCase(word) ==
  CASE word = "Section" -> "section"
    [] word = "Text" -> "text"
    [] word = "Long" -> "long"
    [] word = "Select" -> "select"
    [] word = "Choose" -> "choose"
    [] word = "Upload" -> "upload"
    [] word = "Readonly" -> "readonly"
    [] word = "" -> ""

\* word.charAt(0).toUpperCase() + word.slice(1).toLowerCase()
capitalize(word) ==
  CASE word = "from" -> "From"
    [] word \in {"Title", "Input", "Text", "List", "Option", "Multiple",
                 "Files"} -> word

\* .map((word, index) => ...).join("")
RECURSIVE camelCase(_, _)
camelCase(words, index) ==
  IF index > Len(words) THEN ""
  ELSE (IF index = 1 THEN toLowerCase(words[index])
        ELSE capitalize(words[index]))
       \o camelCase(words, index + 1)

typeMap(type) ==
  CASE type = "radio" -> "Choice"
    [] type = "select" -> "Selection"
    [] type = "checkbox" -> "Options"
    [] type = "file" -> "Files"
    [] type = "text" -> "Input"
    [] type = "textarea" -> "Text"
    [] OTHER -> ""

\* now is the reading of Date.now(), as a string
generateMeaningfulId(title, type, now) ==
  LET cleanTitle == camelCase(titleWords(title), 1)
  IN IF cleanTitle # "" THEN cleanTitle
     ELSE type \o "Field" \o typeMap(type) \o "_" \o now

\* the readings of the clock
Clock == {"1700000000000"}

\* the FormField that addField builds
newField(fieldType, now) ==
  [id |-> generateMeaningfulId(baseTitle(fieldType), fieldType, now),
   type |-> fieldType,
   title |-> baseTitle(fieldType),
   required |-> FALSE,
   placeholder |->
     IF fieldType \in {"text", "textarea"} THEN "Enter value" ELSE NoString,
   options |->
     IF fieldType \in {"select", "radio", "checkbox"}
     THEN <<<<"Option 1", "Option 2", "Option 3">>>> ELSE <<>>,
   defaultValue |->
     IF fieldType = "checkbox" THEN Arr(<<>>)
     ELSE IF fieldType = "file" THEN Null ELSE Str(""),
   readOnly |-> fieldType = "readonly",
   widget |-> getDefaultWidget(fieldType),
   acceptedFileTypes |-> IF fieldType = "file" THEN <<<<"image/*">>>> ELSE <<>>,
   maxFileSize |-> IF fieldType = "file" THEN <<10>> ELSE <<>>,
   multiple |-> IF fieldType = "file" THEN <<FALSE>> ELSE <<>>,
   captureMode |-> IF fieldType = "file" THEN "none" ELSE NoString,
   dependsOn |-> NoString,
   showWhen |-> NoString]

(***************************************************************************)
(* Template values.  A string is held whole; chars spells the strings that *)
(* the template functions take apart, with "#" and "." as characters of    *)
(* their own.  An object is a tagged function from its keys to values.     *)
(***************************************************************************)
Obj(props) == [t |-> "object", props |-> props]

chars(s) ==
  CASE s = "" -> <<>>
    [] s = "#" -> <<"#">>
    [] s = "#client" -> <<"#", "client">>
    [] s = "#client." -> <<"#", "client", ".">>
    [] s = "#client.name" -> <<"#", "client", ".", "name">>
    [] s = "#client.fax" -> <<"#", "client", ".", "fax">>
    [] s = "#client.name.first" -> <<"#", "client", ".", "name", ".", "first">>
    [] s = "#workorder.priority" -> <<"#", "workorder", ".", "priority">>
    [] s = "#technician.id" -> <<"#", "technician", ".", "id">>
    [] s = "#site.name" -> <<"#", "site", ".", "name">>
    [] OTHER -> <<s>>

\* value.startsWith("#")
startsWithHash(s) == chars(s) # <<>> /\ Head(chars(s)) = "#"

\* path.split(".") on the characters of path: the keys between the dots
RECURSIVE split(_, _)
split(cs, key) ==
  IF cs = <<>> THEN <<key>>
  ELSE IF Head(cs) = "." THEN <<key>> \o split(Tail(cs), "")
       ELSE split(Tail(cs), key \o Head(cs))

\* a falsy value: undefined, null or ""
falsyValue(v) ==
  \/ v.t \in {"undefined", "null"}
  \/ (v.t = "string" /\ v.s = "")

\* mutant of resolvePath: the value at the path is returned as it is
RECURSIVE resolvePath_NoFallback(_, _, _)
resolvePath_NoFallback(keys, result, value) ==
  IF keys = <<>> THEN result
  ELSE IF ~falsyValue(result) /\ result.t = "object"
          /\ Head(keys) \in DOMAIN result.props
       THEN resolvePath_NoFallback(Tail(keys), result.props[Head(keys)], value)
       ELSE value

\* the loop over the keys, and the final  result || value
RECURSIVE resolvePath(_, _, _)
resolvePath(keys, result, value) ==
  IF keys = <<>> THEN (IF falsyValue(result) THEN value ELSE result)
  ELSE IF ~falsyValue(result) /\ result.t = "object"
          /\ Head(keys) \in DOMAIN result.props
       THEN resolvePath(Tail(keys), result.props[Head(keys)], value)
       ELSE value

processTemplateValue(value, context) ==
  IF value.t # "string" \/ ~startsWithHash(value.s) THEN value
  ELSE LET path == Tail(chars(value.s))
           keys == split(path, "")
       IN resolvePath(keys, context, value)

buildTemplateContext ==
  Obj([workorder |->
         Obj([scopeOfWork |-> Str("Sample work order description"),
              clientDescription |-> Str("Sample client description"),
              priority |-> Str("High"),
              location |-> Str("Sample location")]),
       client |->
         Obj([name |-> Str("John Doe"),
              email |-> Str("john.doe@example.com"),
              phone |-> Str("(555) 123-4567")]),
       technician |->
         Obj([name |-> Str("Jane Smith"),
              id |-> Str("TECH001"),
              trade |-> Str("Electrician")])])

\* no call of processTemplateValue yet
NoCall == [value |-> Undefined, context |-> Obj(<<>>), result |-> <<>>]

(***************************************************************************)
(* The flows under preview: values of the Step[] type.  Page 1 holds a     *)
(* title, a choice field "color" and a required text field "city" that     *)
(* may depend on a field, and may carry a navigation rule.  The other      *)
(* pages are as addStep makes them.                                        *)
(***************************************************************************)
DriverTypes == {"radio", "select", "checkbox"}

CondValues == {"Red", "Blue"}

CondTargets == {"Page 3", "Nowhere"}

DefaultTargets == {NoString, "", "skip", "end"}

Conditions == [value : CondValues, nextStepName : CondTargets]

ConditionLists == UNION {[1..n -> Conditions] : n \in 0..MaxConds}

\* every rule on the field "color"
ColorRules ==
  [fieldId : {"color"}, conditions : ConditionLists,
   defaultStepName : DefaultTargets]

\* rules on a field the step does not hold
GhostRules ==
  [fieldId : {"ghost"},
   conditions : {<<[value |-> "Red", nextStepName |-> "Page 3"]>>},
   defaultStepName : {NoString, "skip"}]

\* no rule, a rule on "color", a rule on a missing field
FewRules ==
  {<<>>,
   <<[fieldId |-> "color",
      conditions |-> <<[value |-> "Red", nextStepName |-> "Page 3"]>>,
      defaultStepName |-> NoString]>>}
  \cup {<<r>> : r \in GhostRules}

\* the fields are as addField makes them, with the attributes the editor sets
headingField ==
  [newField("title", "") EXCEPT !.id = "heading", !.required = TRUE]

colorField(type, required) ==
  [newField(type, "") EXCEPT
     !.id = "color", !.title = "Color", !.required = required,
     !.options = <<<<"Red", "Blue">>>>]

cityField(dependsOn) ==
  [newField("text", "") EXCEPT
     !.id = "city", !.title = "City", !.required = TRUE,
     !.dependsOn = dependsOn,
     !.showWhen = IF dependsOn = NoString THEN NoString ELSE "Red"]

fieldList(type, required, dependsOn) ==
  <<headingField, colorField(type, required), cityField(dependsOn)>>

\* every field list with a few rules, and every rule with a few field lists
Pages ==
  {[fields |-> fieldList(type, required, dependsOn), rule |-> rule] :
     type \in DriverTypes, required \in BOOLEAN,
     dependsOn \in {NoString, "color", "ghost"}, rule \in FewRules}
  \cup
  {[fields |-> fieldList(type, FALSE, NoString), rule |-> <<r>>] :
     type \in DriverTypes, r \in ColorRules}

\* a page as addStep makes it
newStep(stepNumber, name) ==
  [id |-> "step" \o ToString(stepNumber), name |-> name,
   description |-> "Page " \o ToString(stepNumber) \o " description",
   fields |-> <<>>,
   actionName |-> "submitPage" \o ToString(stepNumber),
   summaryCheckExpression |-> "true", navigationRule |-> <<>>]

firstStep(fields, rule) ==
  [id |-> "step1", name |-> "Page 1",
   description |-> "First page description", fields |-> fields,
   actionName |-> "submitPage1", summaryCheckExpression |-> "true",
   navigationRule |-> rule]

\* one page, or MaxSteps pages whose second page may carry a reserved name
Flows ==
  {<<firstStep(page.fields, page.rule)>> \o
     [i \in 1..(n - 1) |->
        newStep(i + 1, IF i = 1 THEN second ELSE "Page " \o ToString(i + 1))] :
     page \in Pages,
     n \in {1, MaxSteps},
     second \in {"Page 2", "skip"}}

NoNav == [from |-> -1, target |-> NoString, result |-> "none"]

Init ==
  /\ steps \in {<<>>} \cup Flows
  /\ currentStepIndex = 0
  /\ isNewFlow = TRUE
  /\ previewMode = FALSE
  /\ previewData = EmptyData
  /\ saveStatus = ""
  /\ jsonOutput = <<>>
  /\ nav = NoNav
  /\ selectedFieldId = NoString
  /\ stepRefs = [i \in 1..Len(steps) |-> i]
  /\ savedFlows = <<>>
  /\ exported = <<>>
  /\ template = NoCall
  /\ currentFlowName = "New Form Flow"

(***************************************************************************)
(* The schema compiler.  formData, jsonSchema.properties and uiSchema are  *)
(* objects keyed by field id: an assignment under a key that is already    *)
(* there replaces the entry.                                               *)
(***************************************************************************)
\* the positions of the fields that the forEach loops do not skip
nonTitle(fields) == {i \in 1..Len(fields) : fields[i].type # "title"}

\* the last assignment under the key id
lastOf(fields, id) ==
  CHOOSE i \in nonTitle(fields) :
    /\ fields[i].id = id
    /\ \A j \in nonTitle(fields) : fields[j].id = id => j <= i

keysOf(fields) == {fields[i].id : i \in nonTitle(fields)}

\* the value generateFormData enters for one field
formValue(field) ==
  IF field.defaultValue.t \notin {"undefined", "null"} THEN field.defaultValue
  ELSE IF field.type = "checkbox" THEN Arr(<<>>)
  ELSE IF field.type = "file"
  THEN (IF field.multiple = <<TRUE>> THEN Arr(<<>>) ELSE Null)
  ELSE Str("")

generateFormData(fields) ==
  [id \in keysOf(fields) |-> formValue(fields[lastOf(fields, id)])]

\* the entry of jsonSchema.properties for one field
propertyOf(field) ==
  [title |-> field.title,
   type |-> IF field.type = "checkbox" THEN "array" ELSE "string",
   items |-> IF field.type = "checkbox" THEN <<optionsOf(field)>> ELSE <<>>,
   enum |-> IF field.type \in {"radio", "select"}
            THEN <<optionsOf(field)>> ELSE <<>>,
   format |-> IF field.type = "file" THEN "data-url" ELSE NoString,
   maxSize |-> IF field.type = "file"
               THEN (IF field.maxFileSize = <<>> THEN <<10>>
                     ELSE field.maxFileSize)
               ELSE <<>>,
   default |-> IF field.defaultValue.t # "undefined" /\ field.type # "readonly"
               THEN <<field.defaultValue>> ELSE <<>>,
   readOnly |-> field.readOnly \/ field.type = "readonly"]

\* the entry of uiSchema for one field
uiConfigOf(field) ==
  [widget |-> getDefaultWidget(field.type),
   placeholder |-> IF Falsy(field.placeholder) THEN NoString
                   ELSE field.placeholder,
   readonly |-> field.readOnly \/ field.type = "readonly",
   multiple |-> IF field.type = "file" THEN <<field.multiple = <<TRUE>>>>
                ELSE <<>>]

\* mutant of pushedIds: the titles are pushed too
RECURSIVE pushedIds_Titles(_, _, _)
pushedIds_Titles(fields, requiredOnly, i) ==
  IF i > Len(fields) THEN <<>>
  ELSE (IF ~requiredOnly \/ fields[i].required
        THEN <<fields[i].id>> ELSE <<>>)
       \o pushedIds_Titles(fields, requiredOnly, i + 1)

\* the ids pushed by the forEach loop: one push for each field that is not a
\* title, or for each of them that is required
RECURSIVE pushedIds(_, _, _)
pushedIds(fields, requiredOnly, i) ==
  IF i > Len(fields) THEN <<>>
  ELSE (IF fields[i].type # "title" /\ (~requiredOnly \/ fields[i].required)
        THEN <<fields[i].id>> ELSE <<>>)
       \o pushedIds(fields, requiredOnly, i + 1)

\* the schemas of one step
compileStep(step) ==
  [jsonSchema |->
     [type |-> "object",
      description |-> step.description,
      properties |->
        [id \in keysOf(step.fields) |->
           propertyOf(step.fields[lastOf(step.fields, id)])],
      required |-> pushedIds(step.fields, TRUE, 1)],
   uiSchema |->
     [k \in {"ui:order"} \cup keysOf(step.fields) |->
        IF k = "ui:order" THEN pushedIds(step.fields, FALSE, 1)
        ELSE uiConfigOf(step.fields[lastOf(step.fields, k)])],
   formData |-> generateFormData(step.fields),
   actionSchema |->
     [actionName |-> step.actionName,
      summaryCheckExpression |-> OrElse(step.summaryCheckExpression, "true"),
      nextFlowDeterminationExpression |->
        nextFlowDeterminationExpression(step)]]

\* generateAllSchemas reads the current step, whoever calls it
generateAllSchemas ==
  IF HasCurrentStep THEN compileStep(currentStep)
  ELSE [jsonSchema |-> <<>>, uiSchema |-> <<>>, formData |-> <<>>,
        actionSchema |->
          [actionName |-> NoString, summaryCheckExpression |-> NoString,
           nextFlowDeterminationExpression |-> <<>>]]

(***************************************************************************)
(* Handlers.                                                               *)
(***************************************************************************)
\* the Preview Mode checkbox and the effect that follows its switch to on
togglePreviewMode ==
  /\ previewMode' = ~previewMode
  /\ previewData' = IF previewMode' THEN EmptyData ELSE previewData
  /\ selectedFieldId' = IF previewMode' THEN NoString ELSE selectedFieldId
  /\ nav' = NoNav
  /\ UNCHANGED <<steps, currentStepIndex, isNewFlow, saveStatus, jsonOutput,
                 editorVars>>

\* the values an input of the field hands to updatePreviewData
inputValues(field, fieldValue) ==
  IF field.type \in {"text", "textarea"} THEN {Str(""), Str("x")}
  ELSE IF field.type = "select"
  THEN {Str("")}
       \cup {Str(optionsOf(field)[i]) : i \in 1..Len(optionsOf(field))}
  ELSE IF field.type = "radio"
  THEN {Str(optionsOf(field)[i]) : i \in 1..Len(optionsOf(field))}
  ELSE IF field.type = "checkbox"
  THEN LET currentValues ==
             IF fieldValue.t = "array" THEN fieldValue.items ELSE <<>>
       IN {IF includes(currentValues, optionsOf(field)[i])
           THEN Arr(without(currentValues, optionsOf(field)[i]))
           ELSE Arr(Append(currentValues, optionsOf(field)[i])) :
             i \in 1..Len(optionsOf(field))}
  ELSE {}

updatePreviewData(fieldId, value) ==
  /\ previewData' = [k \in DOMAIN previewData \cup {fieldId} |->
                       IF k = fieldId THEN value ELSE previewData[k]]
  /\ nav' = NoNav
  /\ UNCHANGED <<steps, currentStepIndex, isNewFlow, previewMode, saveStatus, jsonOutput,
                 selectedFieldId, editorVars>>

\* an input of a rendered field changes
fieldInput ==
  /\ HasCurrentStep
  /\ \E i \in 1..Len(currentStep.fields) :
       LET field == currentStep.fields[i]
       IN /\ ~(previewMode /\ ~isFieldVisible(field))
          /\ \E value \in inputValues(field, Get(previewData, field.id)) :
               updatePreviewData(field.id, value)

executeNavigation ==
  /\ previewMode
  /\ HasCurrentStep
  /\ LET out == navigationOutcome(parsedSteps, currentStepIndex, previewData,
                                  saveStatus, previewMode)
     IN /\ currentStepIndex' = out.index
        /\ previewData' = out.data
        /\ saveStatus' = out.status
        /\ nav' = [from |-> currentStepIndex, target |-> out.target,
                   result |-> out.result]
  /\ UNCHANGED <<steps, isNewFlow, previewMode, jsonOutput,
                 selectedFieldId, editorVars>>

previousStep ==
  /\ previewMode
  /\ HasCurrentStep
  /\ currentStepIndex > 0
  /\ currentStepIndex' = currentStepIndex - 1
  /\ previewData' = EmptyData
  /\ nav' = NoNav
  /\ UNCHANGED <<steps, isNewFlow, previewMode, saveStatus,
                 jsonOutput,
                 selectedFieldId, editorVars>>

selectPage(index) ==
  /\ currentStepIndex' = index
  /\ previewData' = IF previewMode THEN EmptyData ELSE previewData
  /\ selectedFieldId' = NoString
  /\ nav' = NoNav
  /\ UNCHANGED <<steps, isNewFlow, previewMode, saveStatus, jsonOutput,
                 editorVars>>

pageTab == \E index \in 0..(Len(parsedSteps) - 1) : selectPage(index)

\* the timer that clears the status line
clearSaveStatus ==
  /\ saveStatus # ""
  /\ saveStatus' = ""
  /\ nav' = NoNav
  /\ UNCHANGED <<steps, currentStepIndex, isNewFlow, previewMode, previewData, jsonOutput,
                 selectedFieldId, editorVars>>

\* the Generate Schemas button: the compile result of the current step
generateSchemas ==
  /\ jsonOutput' =
       <<[jsonSchema |-> generateAllSchemas.jsonSchema,
          uiSchema |-> generateAllSchemas.uiSchema,
          formData |-> generateAllSchemas.formData,
          actionSchema |-> generateAllSchemas.actionSchema,
          totalFields |->
            IF HasCurrentStep THEN Len(currentStep.fields) ELSE 0,
          requiredFields |->
            IF HasCurrentStep
            THEN Cardinality({i \in 1..Len(currentStep.fields) :
                                currentStep.fields[i].required})
            ELSE 0]>>
  /\ nav' = NoNav
  /\ UNCHANGED <<steps, currentStepIndex, isNewFlow, previewMode, previewData, saveStatus,
                 selectedFieldId, editorVars>>

\* the close button of the Generated Schema panel
closeJsonOutput ==
  /\ jsonOutput # <<>>
  /\ jsonOutput' = <<>>
  /\ nav' = NoNav
  /\ UNCHANGED <<steps, currentStepIndex, isNewFlow, previewMode, previewData, saveStatus,
                 selectedFieldId, editorVars>>

Next ==
  \/ togglePreviewMode
  \/ fieldInput
  \/ executeNavigation
  \/ previousStep
  \/ pageTab
  \/ clearSaveStatus

Spec == Init /\ [][Next]_vars

\* the schema compiler alone: pages are selected and compiled
NextCompile ==
  \/ pageTab
  \/ generateSchemas
  \/ closeJsonOutput

SpecCompile == Init /\ [][NextCompile]_vars

(***************************************************************************)
(* Step objects.  The arrays of steps are copied before they are changed,  *)
(* the step objects in them are not: stepRefs names the object behind each *)
(* step of the working flow, a saved flow names the objects behind its     *)
(* steps, and a change made to an object in place shows wherever the       *)
(* object is held.  The object of the default step of parsedSteps is 0.    *)
(***************************************************************************)
parsedRefs == IF Len(steps) = 0 /\ isNewFlow THEN <<0>> ELSE stepRefs

\* the saved flows once the object ref holds the value step
mutateSaved(ref, step) ==
  [i \in 1..Len(savedFlows) |->
     [savedFlows[i] EXCEPT
        !.steps = [k \in 1..Len(@) |->
                     IF savedFlows[i].refs[k] = ref THEN step ELSE @[k]]]]

\* updatedSteps[currentStepIndex] changed in place, then updateSteps
writeCurrentStep(step) ==
  /\ steps' = [parsedSteps EXCEPT ![currentStepIndex + 1] = step]
  /\ stepRefs' = parsedRefs
  /\ savedFlows' = mutateSaved(parsedRefs[currentStepIndex + 1], step)

(***************************************************************************)
(* Authoring handlers.  The palette, the field list and the configuration  *)
(* panel are shown outside preview mode only.                              *)
(***************************************************************************)
Min(a, b) == IF a < b THEN a ELSE b

Max(a, b) == IF a > b THEN a ELSE b

\* the objects that the working flow and the saved flows hold
heldRefs ==
  {stepRefs[k] : k \in 1..Len(stepRefs)}
  \cup UNION {{savedFlows[i].refs[k] : k \in 1..Len(savedFlows[i].refs)} :
               i \in 1..Len(savedFlows)}

\* an object that no flow holds: the first name that is free
freshRef ==
  CHOOSE m \in 1..(Cardinality(heldRefs) + 1) :
    /\ m \notin heldRefs
    /\ \A n \in 1..(m - 1) : n \in heldRefs

addField(fieldType) ==
  /\ ~previewMode
  /\ IF Len(parsedSteps) = 0
     THEN \* setSteps([defaultStep]); the push finds no step to push into
          /\ steps' = <<defaultStep>>
          /\ stepRefs' = <<freshRef>>
          /\ currentStepIndex' = 0
          /\ isNewFlow' = TRUE
          /\ UNCHANGED <<savedFlows, selectedFieldId>>
     ELSE \E now \in Clock :
            LET field == newField(fieldType, now)
                targetStepIndex ==
                  Max(0, Min(currentStepIndex, Len(parsedSteps) - 1))
                step == parsedSteps[targetStepIndex + 1]
                pushed == [step EXCEPT !.fields = Append(@, field)]
            IN /\ Len(step.fields) < MaxFields
               /\ steps' = [parsedSteps EXCEPT ![targetStepIndex + 1] = pushed]
               /\ stepRefs' = parsedRefs
               /\ savedFlows' =
                    mutateSaved(parsedRefs[targetStepIndex + 1], pushed)
               /\ selectedFieldId' = field.id
               /\ UNCHANGED <<currentStepIndex, isNewFlow>>
  /\ nav' = NoNav
  /\ UNCHANGED <<previewMode, previewData, saveStatus, jsonOutput, exported,
                 template, currentFlowName>>

paletteButton == \E fieldType \in FIELD_TYPES : addField(fieldType)

\* a click on a field of the list
selectField ==
  /\ ~previewMode
  /\ HasCurrentStep
  /\ \E i \in 1..Len(currentStep.fields) :
       selectedFieldId' = currentStep.fields[i].id
  /\ nav' = NoNav
  /\ UNCHANGED <<steps, currentStepIndex, isNewFlow, previewMode, previewData,
                 saveStatus, jsonOutput, editorVars>>

\* {...a, ...b}
Merge(a, b) ==
  [k \in DOMAIN a \cup DOMAIN b |-> IF k \in DOMAIN b THEN b[k] ELSE a[k]]

\* updates.key = value
Set(updates, key, value) ==
  [k \in DOMAIN updates \cup {key} |-> IF k = key THEN value ELSE updates[k]]

Has(updates, key) == key \in DOMAIN updates

\* the updates once updateField has completed them for the field
completeUpdates(currentField, updates) ==
  LET typeChanged ==
        /\ Has(updates, "type")
        /\ ~Falsy(updates.type)
        /\ updates.type # currentField.type
      u1 == IF typeChanged /\ updates.type = "title"
            THEN Set(Set(Set(updates, "required", FALSE),
                         "placeholder", NoString), "options", <<>>)
            ELSE updates
      u2 == IF typeChanged /\ updates.type \notin {"text", "textarea"}
            THEN Set(u1, "placeholder", NoString)
            ELSE u1
      u3 == IF typeChanged /\ updates.type = "checkbox"
            THEN Set(u2, "defaultValue", Arr(<<>>))
            ELSE IF typeChanged /\ updates.type = "file"
            THEN Set(u2, "defaultValue",
                     IF Has(u2, "multiple") /\ u2.multiple = <<TRUE>>
                     THEN Arr(<<>>) ELSE Null)
            ELSE IF typeChanged
                    /\ updates.type \in {"text", "textarea", "select", "radio",
                                         "readonly"}
            THEN Set(u2, "defaultValue", Str(""))
            ELSE u2
      u4 == IF typeChanged
            THEN IF updates.type \in {"select", "radio", "checkbox"}
                 THEN Set(u3, "options",
                          IF Has(u3, "options") /\ u3.options # <<>>
                          THEN u3.options
                          ELSE <<<<"Option 1", "Option 2", "Option 3">>>>)
                 ELSE Set(u3, "options", <<>>)
            ELSE u3
  IN IF Has(u4, "defaultValue") /\ u4.defaultValue # Undefined
     THEN LET targetType ==
                IF Has(u4, "type") /\ ~Falsy(u4.type)
                THEN u4.type ELSE currentField.type
          IN IF targetType = "checkbox" /\ u4.defaultValue.t # "array"
             THEN Set(u4, "defaultValue", Arr(<<>>))
             ELSE IF targetType = "file"
             THEN Set(u4, "defaultValue",
                      IF currentField.multiple = <<TRUE>>
                      THEN Arr(<<>>) ELSE Null)
             ELSE IF targetType \in {"text", "textarea", "select", "radio",
                                     "readonly"}
                     /\ u4.defaultValue.t = "array"
             THEN Set(u4, "defaultValue", Str(""))
             ELSE u4
     ELSE u4

\* the current step once the field at fieldIndex has taken the updates
updatedStep(fieldIndex, updates) ==
  [currentStep EXCEPT
     !.fields[fieldIndex] = Merge(@, completeUpdates(@, updates))]

updateField(fieldId, updates) ==
  /\ HasCurrentStep
  /\ LET fieldIndex == findField(currentStep.fields, fieldId)
     IN /\ fieldIndex # 0
        /\ writeCurrentStep(updatedStep(fieldIndex, updates))
  /\ nav' = NoNav
  /\ UNCHANGED <<currentStepIndex, isNewFlow, previewMode, previewData,
                 saveStatus, jsonOutput, selectedFieldId, exported, template,
                 currentFlowName>>

\* the configuration panel is shown for the selected field
HasSelectedField ==
  /\ ~previewMode
  /\ HasCurrentStep
  /\ selectedFieldId # NoString
  /\ findField(currentStep.fields, selectedFieldId) # 0

selectedField ==
  currentStep.fields[findField(currentStep.fields, selectedFieldId)]

\* the fields offered as drivers of the selected field
dependencySourceFields ==
  {i \in 1..Len(currentStep.fields) :
     /\ currentStep.fields[i].type \in {"radio", "select", "checkbox"}
     /\ currentStep.fields[i].id # selectedFieldId}

\* the Required checkbox
requiredInput ==
  /\ HasSelectedField
  /\ selectedField.type # "title"
  /\ \E checked \in BOOLEAN :
       updateField(selectedFieldId, [required |-> checked])

\* the texts typed into the Default Value input
DefaultTexts == {"", "hello"}

\* the Default Value input, which a checkbox field does not have
defaultValueInput ==
  /\ HasSelectedField
  /\ selectedField.type # "checkbox"
  /\ \E value \in DefaultTexts :
       updateField(selectedFieldId, [defaultValue |-> Str(value)])

\* the Field Type select
typeSelect ==
  /\ HasSelectedField
  /\ \E type \in FIELD_TYPES : updateField(selectedFieldId, [type |-> type])

\* the Allow multiple files checkbox of a file field
multipleInput ==
  /\ HasSelectedField
  /\ selectedField.type = "file"
  /\ LET checked == selectedField.multiple # <<TRUE>>
     IN updateField(selectedFieldId, [multiple |-> <<checked>>])

\* the templates offered by the template helper
TEMPLATE_SUGGESTIONS == {"#client.name", "#workorder.priority"}

insertTemplate(fieldId, templateKey) ==
  /\ HasCurrentStep
  /\ LET fieldIndex == findField(currentStep.fields, fieldId)
     IN /\ fieldIndex # 0
        /\ writeCurrentStep(
             updatedStep(fieldIndex, [defaultValue |-> Str(templateKey)]))
  /\ saveStatus' = "Template inserted: " \o templateKey
  /\ nav' = NoNav
  /\ UNCHANGED <<currentStepIndex, isNewFlow, previewMode, previewData,
                 jsonOutput, selectedFieldId, exported, template,
                 currentFlowName>>

\* a button of the template helper, shown for the selected field
templateButton ==
  /\ HasSelectedField
  /\ \E templateKey \in TEMPLATE_SUGGESTIONS :
       insertTemplate(selectedFieldId, templateKey)

\* the Show When select: "" is the option Always show
dependsOnSelect ==
  /\ HasSelectedField
  /\ dependencySourceFields # {}
  /\ \E value \in {""} \cup {currentStep.fields[i].id :
                               i \in dependencySourceFields} :
       updateField(selectedFieldId,
                   [dependsOn |-> IF value = "" THEN NoString ELSE value,
                    showWhen |-> IF value = "" THEN NoString ELSE ""])

\* the texts typed into the Show When value input
ShowWhenTexts == {"", "Red"}

showWhenInput ==
  /\ HasSelectedField
  /\ dependencySourceFields # {}
  /\ ~Falsy(selectedField.dependsOn)
  /\ \E value \in ShowWhenTexts :
       updateField(selectedFieldId, [showWhen |-> value])

\* fields.splice(index, 1)
removeAt(fields, index) ==
  [k \in 1..(Len(fields) - 1) |-> IF k < index THEN fields[k] ELSE fields[k + 1]]

\* fields.splice(index, 0, field)
insertAt(fields, index, field) ==
  [k \in 1..(Len(fields) + 1) |->
     IF k < index THEN fields[k]
     ELSE IF k = index THEN field ELSE fields[k - 1]]

\* fromIndex and toIndex count from 0
moveField(fromIndex, toIndex) ==
  /\ HasCurrentStep
  /\ writeCurrentStep(
       [currentStep EXCEPT
          !.fields = insertAt(removeAt(@, fromIndex + 1), toIndex + 1,
                              @[fromIndex + 1])])
  /\ nav' = NoNav
  /\ UNCHANGED <<currentStepIndex, isNewFlow, previewMode, previewData,
                 saveStatus, jsonOutput, selectedFieldId, exported, template,
                 currentFlowName>>

\* the arrows shown on the selected field
moveFieldUp ==
  /\ HasSelectedField
  /\ \E index \in 0..(Len(currentStep.fields) - 1) :
       /\ currentStep.fields[index + 1].id = selectedFieldId
       /\ index > 0
       /\ moveField(index, index - 1)

moveFieldDown ==
  /\ HasSelectedField
  /\ \E index \in 0..(Len(currentStep.fields) - 1) :
       /\ currentStep.fields[index + 1].id = selectedFieldId
       /\ index < Len(currentStep.fields) - 1
       /\ moveField(index, index + 1)

\* fields.filter(f => f.id !== fieldId)
RECURSIVE withoutField(_, _)
withoutField(fields, fieldId) ==
  IF fields = <<>> THEN <<>>
  ELSE IF Head(fields).id = fieldId THEN withoutField(Tail(fields), fieldId)
       ELSE <<Head(fields)>> \o withoutField(Tail(fields), fieldId)

\* mutant of cleanDependents: showWhen is left on the dependent fields
cleanDependents_DependsOnOnly(fields, fieldId) ==
  [k \in 1..Len(fields) |->
     IF fields[k].dependsOn = fieldId
     THEN [fields[k] EXCEPT !.dependsOn = NoString]
     ELSE fields[k]]

\* the forEach that clears the dependencies on the deleted field
cleanDependents(fields, fieldId) ==
  [k \in 1..Len(fields) |->
     IF fields[k].dependsOn = fieldId
     THEN [fields[k] EXCEPT !.dependsOn = NoString, !.showWhen = NoString]
     ELSE fields[k]]

deleteField(fieldId) ==
  /\ HasCurrentStep
  /\ LET kept == withoutField(currentStep.fields, fieldId)
         cleaned == cleanDependents(kept, fieldId)
         rule == IF currentStep.navigationRule # <<>>
                    /\ currentStep.navigationRule[1].fieldId = fieldId
                 THEN <<>> ELSE currentStep.navigationRule
     IN writeCurrentStep([currentStep EXCEPT !.fields = cleaned,
                                             !.navigationRule = rule])
  /\ selectedFieldId' = NoString
  /\ nav' = NoNav
  /\ UNCHANGED <<currentStepIndex, isNewFlow, previewMode, previewData,
                 saveStatus, jsonOutput, exported, template,
                 currentFlowName>>

\* the Delete key and the delete buttons of the selected field
deleteSelectedField ==
  /\ HasSelectedField
  /\ deleteField(selectedFieldId)

\* the names typed into the page name input
StepNames == {"Page 1", "Intro"}

updateStepProperty(property, value) ==
  /\ HasCurrentStep
  /\ writeCurrentStep(
       IF property = "name" THEN [currentStep EXCEPT !.name = value]
       ELSE [currentStep EXCEPT !.description = value])
  /\ nav' = NoNav
  /\ UNCHANGED <<currentStepIndex, isNewFlow, previewMode, previewData,
                 saveStatus, jsonOutput, selectedFieldId, exported, template,
                 currentFlowName>>

\* the page name input, disabled in preview mode
stepNameInput ==
  /\ ~previewMode
  /\ \E value \in StepNames : updateStepProperty("name", value)

(***************************************************************************)
(* Flow handlers.  The answers to prompt and confirm are the user's; the   *)
(* time stamps of a saved flow and of an export are left out.              *)
(***************************************************************************)
\* the names typed into the prompt of saveCurrentFlow
FlowNames == {"A", "B"}

\* flows.findIndex(f => f.name === flowName): 0 when there is none
RECURSIVE findFlowFrom(_, _, _)
findFlowFrom(flows, flowName, i) ==
  IF i > Len(flows) THEN 0
  ELSE IF flows[i].name = flowName THEN i
       ELSE findFlowFrom(flows, flowName, i + 1)

saveCurrentFlow ==
  /\ IF Len(parsedSteps) = 0
     THEN /\ saveStatus' = "Cannot save empty flow"
          /\ UNCHANGED <<savedFlows, currentFlowName>>
     ELSE \E flowName \in FlowNames :
            LET newFlow ==
                  [name |-> flowName,
                   description |->
                     "Flow with " \o ToString(Len(parsedSteps)) \o " pages",
                   refs |-> parsedRefs,
                   steps |-> parsedSteps]
                existingIndex == findFlowFrom(savedFlows, flowName, 1)
            IN /\ savedFlows' =
                    IF existingIndex # 0
                    THEN [savedFlows EXCEPT ![existingIndex] = newFlow]
                    ELSE Append(savedFlows, newFlow)
               /\ Len(savedFlows') <= MaxSaved
               /\ currentFlowName' = flowName
               /\ saveStatus' = "Saved \"" \o flowName \o "\" locally"
  /\ nav' = NoNav
  /\ UNCHANGED <<steps, currentStepIndex, isNewFlow, previewMode, previewData,
                 jsonOutput, selectedFieldId, stepRefs, exported, template>>

loadFlow(flow) ==
  /\ steps' = flow.steps
  /\ stepRefs' = flow.refs
  /\ currentFlowName' = flow.name
  /\ currentStepIndex' = 0
  /\ previewData' = EmptyData
  /\ selectedFieldId' = NoString
  /\ isNewFlow' = FALSE
  /\ saveStatus' = "Loaded \"" \o flow.name \o "\""
  /\ nav' = NoNav
  /\ UNCHANGED <<previewMode, jsonOutput, savedFlows, exported, template>>

\* the Load button of a flow in the flow manager
loadButton == \E i \in 1..Len(savedFlows) : loadFlow(savedFlows[i])

\* Array.from(new Set(types)): the first occurrences in order
RECURSIVE unique(_, _)
unique(types, seen) ==
  IF types = <<>> THEN <<>>
  ELSE IF Head(types) \in seen THEN unique(Tail(types), seen)
       ELSE <<Head(types)>> \o unique(Tail(types), seen \cup {Head(types)})

\* parsedSteps.flatMap(step => step.fields.map(f => f.type))
RECURSIVE fieldTypes(_, _)
fieldTypes(ss, i) ==
  IF i > Len(ss) THEN <<>>
  ELSE [k \in 1..Len(ss[i].fields) |-> ss[i].fields[k].type]
       \o fieldTypes(ss, i + 1)

exportCompleteFlow ==
  /\ IF Len(parsedSteps) = 0
     THEN /\ saveStatus' = "Cannot export empty flow"
          /\ UNCHANGED exported
     ELSE /\ exported' =
               <<[name |-> currentFlowName,
                  description |->
                    "Form with " \o ToString(Len(parsedSteps)) \o " pages",
                  version |-> "1.0",
                  steps |->
                    [index \in 1..Len(parsedSteps) |->
                       [id |-> parsedSteps[index].id,
                        name |-> parsedSteps[index].name,
                        description |-> parsedSteps[index].description,
                        order |-> index,
                        schemas |-> generateAllSchemas]],
                  metadata |->
                    [totalSteps |-> Len(parsedSteps),
                     totalFields |-> Len(fieldTypes(parsedSteps, 1)),
                     fieldTypes |-> unique(fieldTypes(parsedSteps, 1), {})]]>>
          /\ saveStatus' = "Flow exported as JSON"
  /\ nav' = NoNav
  /\ UNCHANGED <<steps, currentStepIndex, isNewFlow, previewMode, previewData,
                 jsonOutput, selectedFieldId, stepRefs, savedFlows,
                 currentFlowName, template>>

\* processTemplateValue is called on the drawn value and context
resolveTemplate ==
  /\ template.result = <<>>
  /\ template' =
       [template EXCEPT
          !.result = <<processTemplateValue(template.value, template.context)>>]
  /\ nav' = NoNav
  /\ UNCHANGED <<steps, currentStepIndex, isNewFlow, previewMode, previewData,
                 saveStatus, jsonOutput, selectedFieldId, stepRefs, savedFlows,
                 exported, currentFlowName>>

(***************************************************************************)
(* Page handlers.  The page tabs, their delete buttons and the Add Page    *)
(* button are shown in both modes.  A confirm that the user declines ends  *)
(* the handler before it changes anything.                                 *)
(***************************************************************************)
addStep ==
  /\ Len(parsedSteps) < MaxSteps
  /\ LET stepNumber == Len(parsedSteps) + 1
     IN /\ steps' = Append(parsedSteps,
                           newStep(stepNumber, "Page " \o ToString(stepNumber)))
        /\ stepRefs' = Append(parsedRefs, freshRef)
  /\ currentStepIndex' = Len(parsedSteps)
  /\ selectedFieldId' = NoString
  /\ nav' = NoNav
  /\ UNCHANGED <<isNewFlow, previewMode, previewData, saveStatus, jsonOutput,
                 savedFlows, exported, template, currentFlowName>>

\* mutant of indexAfterDelete: the index is left as it is
indexAfterDelete_Keep(index, stepIndex, length) == index

\* mutant of indexAfterDelete: the index is clamped and never shifted
indexAfterDelete_Clamp(index, stepIndex, length) ==
  IF index >= length THEN Max(0, length - 1) ELSE index

\* currentStepIndex after the step at stepIndex is gone and length steps stay
indexAfterDelete(index, stepIndex, length) ==
  IF index >= length THEN Max(0, length - 1)
  ELSE IF index >= stepIndex THEN Max(0, index - 1)
  ELSE index

deleteStep(stepIndex) ==
  /\ IF Len(parsedSteps) <= 1
     THEN /\ saveStatus' = "Cannot delete the last page"
          /\ UNCHANGED <<steps, stepRefs, currentStepIndex, selectedFieldId>>
     ELSE /\ steps' = removeAt(parsedSteps, stepIndex + 1)
          /\ stepRefs' = removeAt(parsedRefs, stepIndex + 1)
          /\ currentStepIndex' =
               indexAfterDelete(currentStepIndex, stepIndex,
                                Len(parsedSteps) - 1)
          /\ selectedFieldId' = NoString
          /\ UNCHANGED saveStatus
  /\ nav' = NoNav
  /\ UNCHANGED <<isNewFlow, previewMode, previewData, jsonOutput, savedFlows,
                 exported, template, currentFlowName>>

\* the delete button of a page tab, shown while there are several pages
deleteStepButton ==
  /\ Len(parsedSteps) > 1
  /\ \E index \in 0..(Len(parsedSteps) - 1) : deleteStep(index)

createNewFlow ==
  /\ steps' = <<firstStep(<<>>, <<>>)>>
  /\ stepRefs' = <<freshRef>>
  /\ currentFlowName' = "New Form Flow"
  /\ currentStepIndex' = 0
  /\ previewData' = EmptyData
  /\ selectedFieldId' = NoString
  /\ isNewFlow' = TRUE
  /\ saveStatus' = ""
  /\ nav' = NoNav
  /\ UNCHANGED <<previewMode, jsonOutput, savedFlows, exported, template>>

(***************************************************************************)
(* Specifications of the editor.  Each starts from a flow and lets the     *)
(* handlers of one part of the editor run.                                 *)
(***************************************************************************)
StartWith(flow) ==
  /\ steps = flow
  /\ stepRefs = [i \in 1..Len(flow) |-> i]
  /\ currentStepIndex = 0
  /\ isNewFlow = TRUE
  /\ previewMode = FALSE
  /\ previewData = EmptyData
  /\ saveStatus = ""
  /\ jsonOutput = <<>>
  /\ nav = NoNav
  /\ selectedFieldId = NoString
  /\ savedFlows = <<>>
  /\ exported = <<>>
  /\ template = NoCall
  /\ currentFlowName = "New Form Flow"

\* one page with a driver "color" and a text field "city" that is
\* independent, depends on "color" or depends on a field the page lacks
VisibleFlows ==
  {<<firstStep(<<colorField(type, FALSE), cityField(dependsOn)>>, <<>>)>> :
     type \in DriverTypes \cup {"text"},
     dependsOn \in {NoString, "color", "ghost"}}

InitVisible == \E flow \in VisibleFlows : StartWith(flow)

\* dependencies are set in the configuration panel and tried in the preview
NextVisible ==
  \/ selectField
  \/ dependsOnSelect
  \/ showWhenInput
  \/ togglePreviewMode
  \/ fieldInput

SpecVisible == InitVisible /\ [][NextVisible]_vars

\* the fields a palette button makes, with the attributes the configuration
\* panel edits and with a defaultValue that is set or not
DefaultsOf(type) ==
  IF type = "title" THEN {Str("")}
  ELSE IF type = "checkbox"
  THEN {Arr(<<>>), Arr(<<"Option 1">>), Undefined}
  ELSE IF type = "file" THEN {Null, Undefined}
  ELSE {Str(""), Str("hello"), Undefined}

CompileFields ==
  UNION {{[newField(type, "") EXCEPT
             !.required = required, !.defaultValue = defaultValue,
             !.multiple = IF type = "file" THEN <<multiple>> ELSE <<>>] :
            required \in BOOLEAN, defaultValue \in DefaultsOf(type),
            multiple \in BOOLEAN} :
         type \in FIELD_TYPES}

FieldLists == UNION {[1..n -> CompileFields] : n \in 0..MaxFields}

InitSchemas ==
  \E fields \in FieldLists : StartWith(<<firstStep(fields, <<>>)>>)

\* the compiler on one page of fields
NextSchemas ==
  \/ generateSchemas
  \/ closeJsonOutput

SpecSchemas == InitSchemas /\ [][NextSchemas]_vars

\* the export of a flow of several pages
NextExport ==
  \/ pageTab
  \/ exportCompleteFlow
  \/ clearSaveStatus

SpecExport == Init /\ [][NextExport]_vars

\* the values handed to processTemplateValue
TemplateValues ==
  {Str(s) : s \in {"", "plain", "#", "#client", "#client.", "#client.name",
                   "#client.fax", "#client.name.first", "#workorder.priority",
                   "#technician.id", "#site.name"}}
  \cup {Undefined, Null, Arr(<<"#client.name">>)}

\* values of the TemplateContext type: the context of buildTemplateContext,
\* the same with client.name empty, null or undefined, with client null or
\* an empty object, without client, and the empty object
TemplateContexts ==
  {buildTemplateContext, Obj(<<>>),
   Obj([k \in {"workorder", "technician"} |-> buildTemplateContext.props[k]]),
   [buildTemplateContext EXCEPT !.props.client = Null],
   [buildTemplateContext EXCEPT !.props.client = Obj(<<>>)]}
  \cup {[buildTemplateContext EXCEPT !.props.client.props.name = v] :
          v \in {Str(""), Null, Undefined}}

InitTemplate ==
  /\ steps = <<>>
  /\ stepRefs = <<>>
  /\ currentStepIndex = 0
  /\ isNewFlow = TRUE
  /\ previewMode = FALSE
  /\ previewData = EmptyData
  /\ saveStatus = ""
  /\ jsonOutput = <<>>
  /\ nav = NoNav
  /\ selectedFieldId = NoString
  /\ savedFlows = <<>>
  /\ exported = <<>>
  /\ template \in [value : TemplateValues, context : TemplateContexts,
                   result : {<<>>}]
  /\ currentFlowName = "New Form Flow"

\* processTemplateValue on its own
NextTemplate == resolveTemplate

SpecTemplate == InitTemplate /\ [][NextTemplate]_vars

\* the editor as it starts
InitNew == StartWith(<<>>)

\* fields are added, edited, moved and deleted on the page, and the flow is
\* saved and loaded
NextEdit ==
  \/ paletteButton
  \/ selectField
  \/ requiredInput
  \/ defaultValueInput
  \/ moveFieldUp
  \/ moveFieldDown
  \/ deleteSelectedField
  \/ stepNameInput
  \/ saveCurrentFlow
  \/ loadButton
  \/ clearSaveStatus

SpecEdit == InitNew /\ [][NextEdit]_vars

\* pages are added and deleted in a new flow, in either mode
NextSteps ==
  \/ addStep
  \/ deleteStepButton
  \/ pageTab
  \/ togglePreviewMode

SpecSteps == InitNew /\ [][NextSteps]_vars

\* the palette while the page is empty
firstFieldButton ==
  /\ HasCurrentStep
  /\ Len(currentStep.fields) = 0
  /\ paletteButton

\* one field is added and its kind, default value and multiple flag edited
NextKinds ==
  \/ firstFieldButton
  \/ selectField
  \/ typeSelect
  \/ defaultValueInput
  \/ multipleInput
  \/ templateButton
  \/ clearSaveStatus

SpecKinds == InitNew /\ [][NextKinds]_vars

\* fields are added and marked required, then answered in the preview
NextRequired ==
  \/ paletteButton
  \/ selectField
  \/ requiredInput
  \/ togglePreviewMode
  \/ fieldInput
  \/ executeNavigation
  \/ clearSaveStatus

SpecRequired == InitNew /\ [][NextRequired]_vars

\* flows of one page or of MaxSteps pages; the first page may carry a rule
\* that jumps to "Page 3" on the answer "Red" and skips otherwise
JumpFlows ==
  {<<firstStep(<<colorField("radio", FALSE)>>, rule)>> \o
     [i \in 1..(n - 1) |-> newStep(i + 1, "Page " \o ToString(i + 1))] :
     rule \in {<<>>,
               <<[fieldId |-> "color",
                  conditions |->
                    <<[value |-> "Red", nextStepName |-> "Page 3"]>>,
                  defaultStepName |-> "skip"]>>},
     n \in {1, MaxSteps}}

\* the flow as saveCurrentFlow has stored it under the name "A"
AfterSave(flow) ==
  /\ steps = flow
  /\ stepRefs = [i \in 1..Len(flow) |-> i]
  /\ currentStepIndex = 0
  /\ isNewFlow = TRUE
  /\ previewMode = FALSE
  /\ previewData = EmptyData
  /\ saveStatus = "Saved \"A\" locally"
  /\ jsonOutput = <<>>
  /\ nav = NoNav
  /\ selectedFieldId = NoString
  /\ savedFlows =
       <<[name |-> "A",
          description |-> "Flow with " \o ToString(Len(flow)) \o " pages",
          refs |-> [i \in 1..Len(flow) |-> i],
          steps |-> flow]>>
  /\ exported = <<>>
  /\ template = NoCall
  /\ currentFlowName = "A"

\* the new flow, or a flow that has just been saved
InitPages ==
  \/ InitNew
  \/ \E flow \in JumpFlows : AfterSave(flow)

\* pages are added, deleted and visited, in the editor and in the preview,
\* and the flow is started anew or loaded again
NextPages ==
  \/ addStep
  \/ deleteStepButton
  \/ pageTab
  \/ previousStep
  \/ executeNavigation
  \/ createNewFlow
  \/ loadButton
  \/ togglePreviewMode
  \/ fieldInput
  \/ clearSaveStatus

SpecPages == InitPages /\ [][NextPages]_vars

\* a choice field "kind" that decides whether the driver "color" is shown
kindField ==
  [newField("select", "") EXCEPT
     !.id = "kind", !.title = "Kind", !.options = <<<<"Yes", "No">>>>]

\* MaxSteps pages; on the first the driver "color" of the rule is shown when
\* "kind" is answered "Yes"
HiddenFlows ==
  {<<firstStep(<<kindField,
                 [colorField(type, FALSE) EXCEPT
                    !.dependsOn = "kind", !.showWhen = "Yes"]>>,
               <<[fieldId |-> "color",
                  conditions |->
                    <<[value |-> "Red", nextStepName |-> "Page 3"]>>,
                  defaultStepName |-> defaultStepName]>>)>> \o
     [i \in 1..(MaxSteps - 1) |->
        newStep(i + 1, "Page " \o ToString(i + 1))] :
     type \in DriverTypes, defaultStepName \in {NoString, "end"}}

InitHidden == \E flow \in HiddenFlows : StartWith(flow)

\* the preview of a flow whose driver can be hidden
NextHidden ==
  \/ togglePreviewMode
  \/ fieldInput
  \/ executeNavigation
  \/ previousStep
  \/ pageTab
  \/ clearSaveStatus

SpecHidden == InitHidden /\ [][NextHidden]_vars

\* the flows whose first page has a rule and a field that depends on another
DeleteFlows ==
  {flow \in Flows :
     /\ flow[1].navigationRule # <<>>
     /\ \E i \in 1..Len(flow[1].fields) :
          flow[1].fields[i].dependsOn # NoString}

InitDelete == \E flow \in DeleteFlows : StartWith(flow)

\* fields are selected, moved and deleted
NextDelete ==
  \/ selectField
  \/ moveFieldUp
  \/ moveFieldDown
  \/ deleteSelectedField
  \/ pageTab

SpecDelete == InitDelete /\ [][NextDelete]_vars

\* deleteStep on any page, whether or not its tab shows the delete button
deleteAnyStep == \E index \in 0..(Len(parsedSteps) - 1) : deleteStep(index)

\* pages are added, selected and deleted in a new flow
NextDeleteStep ==
  \/ addStep
  \/ pageTab
  \/ deleteAnyStep
  \/ togglePreviewMode
  \/ clearSaveStatus

SpecDeleteStep == InitNew /\ [][NextDeleteStep]_vars

(***************************************************************************)
(* Properties.  A step of executeNavigation is one that leaves nav set;    *)
(* every other handler resets it.                                          *)
(***************************************************************************)
NavStep == nav' # NoNav

Sentinels == {"continue", "end", "skip"}

\* the fields of a step that validation must report, stated on the field
MissingRequired(step, data) ==
  {i \in 1..Len(step.fields) :
     /\ step.fields[i].required
     /\ step.fields[i].type # "title"
     /\ isFieldVisibleIn(step, data, step.fields[i])
     /\ LET a == Get(data, step.fields[i].id)
        IN \/ a.t \in {"undefined", "null"}
           \/ (a.t = "string" /\ a.s = "")
           \/ (a.t = "array" /\ a.items = <<>>)}

\* the step has a rule whose fieldId names one of its fields
RuleResolves(step) ==
  /\ step.navigationRule # <<>>
  /\ \E i \in 1..Len(step.fields) :
       step.fields[i].id = step.navigationRule[1].fieldId

DriverOf(step) ==
  CHOOSE f \in {step.fields[i] : i \in 1..Len(step.fields)} :
    f.id = step.navigationRule[1].fieldId

\* the matching policy as the specification words it
PolicyMatches(driver, answer, cond) ==
  IF driver.type = "checkbox"
  THEN answer.t = "array" /\ cond.value \in {answer.items[i] : i \in DOMAIN answer.items}
  ELSE answer = Str(cond.value)

PolicyTarget(rule, driver, answer, absent) ==
  LET M == {i \in 1..Len(rule.conditions) :
              PolicyMatches(driver, answer, rule.conditions[i])}
  IN IF M # {}
     THEN rule.conditions[CHOOSE i \in M : \A j \in M : i <= j].nextStepName
     ELSE IF rule.defaultStepName \in absent THEN "continue"
          ELSE rule.defaultStepName

\* C1: whenever executeNavigation resolves a target, evaluating the string of
\* convertToExpression against the same answers gives the same target.
C1_ExpressionAgrees ==
  [][(NavStep /\ nav'.target # NoString)
       => evalExpression(convertToExpression(currentStep.navigationRule[1]),
                         previewData) = nav'.target]_vars

\* C2 as claimed: conditions in listed order, first match wins, checkbox by
\* containment and the other kinds by equality, no match gives
\* defaultStepName, or 'continue' when defaultStepName is absent.
C2_TargetAsClaimed ==
  [][(NavStep /\ nav'.target # NoString)
       => nav'.target =
            PolicyTarget(currentStep.navigationRule[1], DriverOf(currentStep),
                         Get(previewData, currentStep.navigationRule[1].fieldId),
                         {NoString})]_vars

\* C2 amended: the same, with 'continue' also when defaultStepName is the
\* empty string.
C2_TargetFirstMatch ==
  [][(NavStep /\ nav'.target # NoString)
       => nav'.target =
            PolicyTarget(currentStep.navigationRule[1], DriverOf(currentStep),
                         Get(previewData, currentStep.navigationRule[1].fieldId),
                         {NoString, ""})]_vars

\* C2 witness: a checkbox answer that holds the values of both conditions of
\* a two-condition rule was resolved to the first condition's target.
C2_Witness ==
  /\ nav.result = "notfound"
  /\ LET step == parsedSteps[nav.from + 1]
         rule == step.navigationRule[1]
         answer == Get(previewData, rule.fieldId)
     IN /\ Len(rule.conditions) = 2
        /\ DriverOf(step).type = "checkbox"
        /\ answer.t = "array"
        /\ includes(answer.items, rule.conditions[1].value)
        /\ includes(answer.items, rule.conditions[2].value)
        /\ rule.conditions[1].nextStepName # rule.conditions[2].nextStepName
        /\ nav.target = rule.conditions[1].nextStepName

\* C3: a rule whose fieldId names no field of the step is treated as absent
\* by both: the expression is 'continue', and executeNavigation does what it
\* does on the same step without a rule (advance, or complete on the last).
C3_DanglingRuleIsAbsent ==
  [][(NavStep /\ currentStep.navigationRule # <<>> /\ ~RuleResolves(currentStep))
       => /\ nextFlowDeterminationExpression(currentStep) = Lit("continue")
          /\ LET bare == [parsedSteps EXCEPT
                            ![currentStepIndex + 1].navigationRule = <<>>]
                 out == navigationOutcome(bare, currentStepIndex, previewData,
                                          saveStatus, previewMode)
             IN /\ currentStepIndex' = out.index
                /\ previewData' = out.data
                /\ saveStatus' = out.status]_vars

\* the compiled expression that jsonOutput holds
CompiledExpression(out) == out[1].actionSchema.nextFlowDeterminationExpression

\* the expression is a chain over the conditions in listed order: the i-th
\* link tests conditions[i].value on the driver and yields
\* conditions[i].nextStepName, and the chain ends in the fallback
IsChain(expr, rule, driver) ==
  LET n == Len(rule.conditions)
      w == IF driver.type = "checkbox" THEN 15 ELSE 12
  IN /\ Len(expr) = w * n + 3
     /\ \A i \in 1..n :
          LET link == SubSeq(expr, w * (i - 1) + 1, w * i)
          IN /\ link[1] = "formData" /\ link[3] = rule.fieldId
             /\ IF driver.type = "checkbox"
                THEN /\ link[5] = "includes"
                     /\ link[8] = rule.conditions[i].value
                     /\ link[11] = "?"
                     /\ link[13] = rule.conditions[i].nextStepName
                ELSE /\ link[4] = "==="
                     /\ link[6] = rule.conditions[i].value
                     /\ link[8] = "?"
                     /\ link[10] = rule.conditions[i].nextStepName
             /\ link[w] = ":"
     /\ SubSeq(expr, w * n + 1, w * n + 3)
          = <<"'", IF rule.defaultStepName \in {NoString, ""}
                   THEN "continue" ELSE rule.defaultStepName, "'">>

\* C4: the expression that generateSchemas compiles for the current step is
\* the literal 'continue' when the step has no rule, the rule's fieldId names
\* no field of the step or the rule has no condition, and otherwise a chain
\* over the conditions in listed order that ends in defaultStepName or
\* 'continue'.
C4_CompiledExpression ==
  [][(jsonOutput' # jsonOutput /\ jsonOutput' # <<>>)
       => IF ~RuleResolves(currentStep)
             \/ currentStep.navigationRule[1].conditions = <<>>
          THEN CompiledExpression(jsonOutput') = <<"'", "continue", "'">>
          ELSE IsChain(CompiledExpression(jsonOutput'),
                       currentStep.navigationRule[1], DriverOf(currentStep))]_vars

\* C4 witness: a compiled chain over two conditions on a checkbox driver.
C4_Witness ==
  /\ jsonOutput # <<>>
  /\ HasCurrentStep
  /\ RuleResolves(currentStep)
  /\ Len(currentStep.navigationRule[1].conditions) = 2
  /\ DriverOf(currentStep).type = "checkbox"
  /\ Len(CompiledExpression(jsonOutput)) > 3
  /\ CompiledExpression(jsonOutput) = nextFlowDeterminationExpression(currentStep)

\* C5: when validation passes and the step has no rule or the resolved
\* target is 'continue', executeNavigation moves to the next step, and on the
\* last step stays and reports completion.
C5_ContinueAdvances ==
  [][(/\ NavStep
      /\ MissingRequired(currentStep, previewData) = {}
      /\ (currentStep.navigationRule = <<>> \/ nav'.target = "continue"))
       => IF currentStepIndex < Len(parsedSteps) - 1
          THEN currentStepIndex' = currentStepIndex + 1
          ELSE /\ currentStepIndex' = currentStepIndex
               /\ saveStatus' = "Form Complete!"
               /\ nav'.result = "complete"]_vars

\* C5 witness: a rule resolved to 'continue' on the last step completed the
\* form.
C5_Witness ==
  /\ nav.result = "complete"
  /\ nav.target = "continue"
  /\ currentStepIndex = Len(parsedSteps) - 1
  /\ saveStatus = "Form Complete!"

\* C5 witness of the other branch: a step without a rule advanced by one.
C5_WitnessAdvance ==
  /\ nav.result = "continue"
  /\ parsedSteps[nav.from + 1].navigationRule = <<>>
  /\ currentStepIndex = nav.from + 1

\* the positions, counted from 0, of the steps that carry a name
StepsNamed(name) ==
  {i \in 0..(Len(parsedSteps) - 1) : parsedSteps[i + 1].name = name}

\* C6: a resolved target other than 'continue', 'end' and 'skip' that names
\* no step leaves currentStepIndex and previewData as they were and is
\* reported as not found.
C6_TargetNotFound ==
  [][(/\ NavStep
      /\ nav'.target \notin {NoString} \cup Sentinels
      /\ StepsNamed(nav'.target) = {})
       => /\ currentStepIndex' = currentStepIndex
          /\ previewData' = previewData
          /\ nav'.result = "notfound"
          /\ saveStatus' = "Target \"" \o nav'.target \o "\" not found"]_vars

\* C6 witness: a filled answer record survived a target that names no step.
C6_Witness ==
  /\ nav.result = "notfound"
  /\ nav.target = "Nowhere"
  /\ currentStepIndex = nav.from
  /\ DOMAIN previewData = {"color", "city"}

\* C7 as claimed: a resolved target that names an existing step moves to the
\* step of that name.
C7_JumpAsClaimed ==
  [][(/\ NavStep
      /\ nav'.target # NoString
      /\ StepsNamed(nav'.target) # {})
       => currentStepIndex' \in StepsNamed(nav'.target)]_vars

\* C7 amended: a resolved target other than 'continue', 'end' and 'skip'
\* that names an existing step moves to the first step of that name.
C7_JumpToNamedStep ==
  [][(/\ NavStep
      /\ nav'.target \notin {NoString} \cup Sentinels
      /\ StepsNamed(nav'.target) # {})
       => /\ currentStepIndex' \in StepsNamed(nav'.target)
          /\ \A i \in StepsNamed(nav'.target) : currentStepIndex' <= i
          /\ nav'.result = "jump"]_vars

\* C7 witness: the answer Red with the condition Red -> "Page 3" moved from
\* the first step to the step named "Page 3".
C7_Witness ==
  /\ nav.result = "jump"
  /\ nav.from = 0
  /\ nav.target = "Page 3"
  /\ currentStepIndex = 2
  /\ parsedSteps[3].name = "Page 3"
  /\ parsedSteps[1].navigationRule[1].conditions[1].value = "Red"

\* C8: the resolved target 'skip' moves to the final step.
C8_SkipToLast ==
  [][(NavStep /\ nav'.target = "skip")
       => /\ currentStepIndex' = Len(parsedSteps) - 1
          /\ nav'.result = "skipped"]_vars

\* C8 witness: 'skip' moved from the first of several steps to the last.
C8_Witness ==
  /\ nav.result = "skipped"
  /\ nav.from = 0
  /\ Len(parsedSteps) > 2
  /\ currentStepIndex = Len(parsedSteps) - 1

\* C9: with a validation error on the current step executeNavigation leaves
\* currentStepIndex and previewData as they were, and every call validates
\* the answers of that moment: it is blocked by validation exactly when a
\* required visible field misses its answer.
C9_ValidationBlocks ==
  [][NavStep
       => /\ (nav'.result = "validation")
               <=> (MissingRequired(currentStep, previewData) # {})
          /\ (MissingRequired(currentStep, previewData) # {})
               => /\ currentStepIndex' = currentStepIndex
                  /\ previewData' = previewData]_vars

\* C9 witness: the status line still shows the validation errors of an
\* earlier attempt while a later attempt has navigated.
C9_Witness ==
  /\ saveStatus = "1 validation error(s)"
  /\ nav.result \in {"continue", "jump", "skipped"}
  /\ currentStepIndex # nav.from

\* the error message of a field
RequiredMessage(field) == "\"" \o field.title \o "\" is required"

\* C10: in preview mode validateCurrentStep returns one error for each field
\* that is required, not a title, visible and without an answer, and no
\* other error; executeNavigation reports that number.
C10_ValidateExact ==
  (previewMode /\ HasCurrentStep)
    => LET errors == validateCurrentStep
           missing == MissingRequired(currentStep, previewData)
       IN /\ Len(errors) = Cardinality(missing)
          /\ \A i \in 1..Len(currentStep.fields) :
               Cardinality({k \in 1..Len(errors) :
                              errors[k] = RequiredMessage(currentStep.fields[i])})
                 = IF i \in missing THEN 1 ELSE 0
          /\ (nav.result = "validation"
                => saveStatus = ToString(Cardinality(missing))
                                  \o " validation error(s)")

\* C10 witness: validation reported one error, for the unanswered "color",
\* while the required "city" is hidden by dependsOn and unanswered.
C10_Witness ==
  /\ nav.result = "validation"
  /\ saveStatus = "1 validation error(s)"
  /\ validateCurrentStep = <<"\"Color\" is required">>
  /\ currentStep.fields[3].required
  /\ currentStep.fields[3].dependsOn = "color"
  /\ ~isFieldVisible(currentStep.fields[3])
  /\ "city" \notin DOMAIN previewData

\* the fields of the current step
CurrentFields ==
  IF HasCurrentStep
  THEN {currentStep.fields[i] : i \in 1..Len(currentStep.fields)}
  ELSE {}

\* the fields of the current step that carry the id
FieldsWithId(id) == {f \in CurrentFields : f.id = id}

\* C11: a field whose dependsOn is set and whose driver's answer is unset,
\* null or the empty string is not visible, whatever its showWhen is.
C11_HiddenWithoutDriverAnswer ==
  \A field \in CurrentFields :
    (/\ field.dependsOn \notin {NoString, ""}
     /\ \/ field.dependsOn \notin DOMAIN previewData
        \/ previewData[field.dependsOn] \in {Undefined, Null, Str("")})
      => ~isFieldVisible(field)

\* C12: a field whose dependsOn names no field of the current step is not
\* visible, whatever its showWhen and the answers are.
C12_DanglingHidden ==
  \A field \in CurrentFields :
    (/\ field.dependsOn \notin {NoString, ""}
     /\ FieldsWithId(field.dependsOn) = {})
      => ~isFieldVisible(field)

\* C13: a field whose dependsOn names a field of the step that has a
\* non-empty answer is visible iff the answer sequence contains showWhen when
\* the driver is a checkbox, and iff the answer equals showWhen for every
\* other driver kind.
C13_VisibleIffMatches ==
  \A field \in CurrentFields :
    \A driver \in FieldsWithId(field.dependsOn) :
      (/\ field.dependsOn \in DOMAIN previewData
       /\ previewData[field.dependsOn] \notin
            {Undefined, Null, Str(""), Arr(<<>>)})
        => (isFieldVisible(field)
              <=> LET answer == previewData[field.dependsOn]
                  IN IF driver.type = "checkbox"
                     THEN /\ answer.t = "array"
                          /\ \E k \in 1..Len(answer.items) :
                               answer.items[k] = field.showWhen
                     ELSE answer = Str(field.showWhen))

\* the default answer of a field as the kinds determine it
ExpectedDefault(field) ==
  IF field.defaultValue # Undefined /\ field.defaultValue # Null
  THEN field.defaultValue
  ELSE CASE field.type = "checkbox" -> Arr(<<>>)
         [] field.type = "file" /\ field.multiple = <<TRUE>> -> Arr(<<>>)
         [] field.type = "file" /\ field.multiple # <<TRUE>> -> Null
         [] OTHER -> Str("")

\* C14: the formData that generateSchemas puts out holds, for every field of
\* the step that is not a title, the field's defaultValue when one is set and
\* otherwise [] for checkbox, [] for file with multiple, null for file
\* without, "" for every other kind; it holds no entry for a title.
C14_FormDataDefaults ==
  (jsonOutput # <<>> /\ HasCurrentStep)
    => LET formData == jsonOutput[1].formData
       IN \A field \in CurrentFields :
            IF field.type = "title"
            THEN \/ field.id \notin DOMAIN formData
                 \/ \E other \in CurrentFields :
                      other.type # "title" /\ other.id = field.id
            ELSE /\ field.id \in DOMAIN formData
                 /\ formData[field.id] = ExpectedDefault(field)

\* C15: in the export every step entry carries the schemas of that very
\* step, whichever step is selected.
C15_ExportedSchemas ==
  exported # <<>>
    => \A i \in 1..Len(exported[1].steps) :
         exported[1].steps[i].schemas = compileStep(parsedSteps[i])

\* the ids in a list
Range(seq) == {seq[i] : i \in 1..Len(seq)}

\* C17: the compiled data schema has exactly one property for each field of
\* the step that is not a title, and its required list holds a field's id
\* iff the field is not a title and is required.
C17_PropertiesAndRequired ==
  (jsonOutput # <<>> /\ HasCurrentStep)
    => LET jsonSchema == jsonOutput[1].jsonSchema
           fields == currentStep.fields
       IN /\ Cardinality(DOMAIN jsonSchema.properties)
               = Cardinality({i \in 1..Len(fields) : fields[i].type # "title"})
          /\ \A i \in 1..Len(fields) :
               /\ fields[i].type # "title"
                    => fields[i].id \in DOMAIN jsonSchema.properties
               /\ fields[i].id \in Range(jsonSchema.required)
                    <=> (fields[i].type # "title" /\ fields[i].required)

\* the ids of the fields that are not titles, in field order
NonTitleIds(fields) ==
  LET kept == SelectSeq(fields, LAMBDA f : f.type # "title")
  IN [k \in 1..Len(kept) |-> kept[k].id]

\* C18: the "ui:order" list of the compiled presentation schema is the
\* sequence of the ids of the step's fields that are not titles, in field
\* order.
C18_UiOrder ==
  (jsonOutput # <<>> /\ HasCurrentStep)
    => jsonOutput[1].uiSchema["ui:order"] = NonTitleIds(currentStep.fields)

\* C18 witness: a compiled step of a title followed by a field; the order
\* lists the field alone.
C18_Witness ==
  /\ jsonOutput # <<>>
  /\ Len(currentStep.fields) = 2
  /\ currentStep.fields[1].type = "title"
  /\ currentStep.fields[2].type = "checkbox"
  /\ jsonOutput[1].uiSchema["ui:order"] = <<"selectMultiple">>

\* the value at a path of keys below a node: <<v>>, or <<>> when a key is
\* missing or a value on the way is not an object
RECURSIVE ValueAt(_, _)
ValueAt(node, keys) ==
  IF keys = <<>> THEN <<node>>
  ELSE IF node.t = "object" /\ Head(keys) \in DOMAIN node.props
       THEN ValueAt(node.props[Head(keys)], Tail(keys))
       ELSE <<>>

C19_WitnessResolved ==
  /\ template.value = Str("#client.name")
  /\ template.result = <<Str("John Doe")>>

\* C16: a saved flow is a snapshot: a handler that changes the working flow
\* (addField, updateField, moveField, deleteField, updateStepProperty, also
\* after loadFlow) leaves every saved flow as it was.
C16_SavedIsSnapshot ==
  [][steps' # steps => savedFlows' = savedFlows]_vars

\* C20: the ids of the fields of a step are pairwise distinct.
C20_FieldIdsDistinct ==
  \A s \in 1..Len(parsedSteps) :
    \A i, j \in 1..Len(parsedSteps[s].fields) :
      parsedSteps[s].fields[i].id = parsedSteps[s].fields[j].id => i = j

(***************************************************************************)
(* C21: after any sequence of addStep and deleteStep from a new flow, the  *)
(* names of the steps of the flow are pairwise distinct.                   *)
(***************************************************************************)
C21_StepNamesDistinct ==
  \A i, j \in 1..Len(parsedSteps) :
    parsedSteps[i].name = parsedSteps[j].name => i = j

(***************************************************************************)
(* C22: after any sequence of addField and updateField, the defaultValue   *)
(* of every field that is not a title has the shape of its kind: a         *)
(* sequence for checkbox; for file a sequence when multiple is true and    *)
(* null when it is not; a single string for every other kind.              *)
(***************************************************************************)
ShapeOfKind(field) ==
  IF field.type = "checkbox" THEN "array"
  ELSE IF field.type = "file"
  THEN (IF field.multiple = <<TRUE>> THEN "array" ELSE "null")
  ELSE "string"

C22_DefaultValueShape ==
  \A s \in 1..Len(parsedSteps) :
    \A i \in nonTitle(parsedSteps[s].fields) :
      parsedSteps[s].fields[i].defaultValue.t =
        ShapeOfKind(parsedSteps[s].fields[i])

(***************************************************************************)
(* C23: when updateField changes the kind of a field, the field it leaves  *)
(* carries no attribute of a kind it no longer has: options only for       *)
(* select, radio and checkbox; acceptedFileTypes, maxFileSize and multiple *)
(* only for file.                                                          *)
(***************************************************************************)
KindAttributesOnly(field) ==
  /\ field.type \notin {"select", "radio", "checkbox"} => field.options = <<>>
  /\ field.type # "file" =>
       /\ field.acceptedFileTypes = <<>>
       /\ field.maxFileSize = <<>>
       /\ field.multiple = <<>>

C23_KindChangeClears ==
  [][\A i \in 1..Len(currentStep.fields) :
       (/\ Len(currentStep'.fields) = Len(currentStep.fields)
        /\ currentStep'.fields[i].id = currentStep.fields[i].id
        /\ currentStep'.fields[i].type # currentStep.fields[i].type)
       => KindAttributesOnly(currentStep'.fields[i])]_vars

(***************************************************************************)
(* C24: the required flag of a title or readonly field has no effect:      *)
(* validate reports no missing answer for such a field, and                *)
(* executeNavigation is not blocked by validation when every field it      *)
(* misses an answer for is a title or readonly field.                      *)
(***************************************************************************)
FlagIgnored(field) == field.type \in {"title", "readonly"}

C24_RequiredIgnored ==
  [][NavStep
       => /\ \A i \in 1..Len(currentStep.fields) :
               FlagIgnored(currentStep.fields[i])
                 => RequiredMessage(currentStep.fields[i])
                      \notin Range(validateCurrentStep)
          /\ (\A i \in MissingRequired(currentStep, previewData) :
                FlagIgnored(currentStep.fields[i]))
               => nav'.result # "validation"]_vars

(***************************************************************************)
(* C25: when the step has a rule whose driver field exists and the         *)
(* driver's answer is unset, null, the empty string or the empty sequence, *)
(* executeNavigation resolves no target and leaves currentStepIndex and    *)
(* previewData as they were.                                               *)
(***************************************************************************)
AnswerEmpty(answer) ==
  \/ answer.t \in {"undefined", "null"}
  \/ answer = Str("")
  \/ answer = Arr(<<>>)

C25_WitnessEmptyString ==
  /\ nav.result = "incomplete"
  /\ RuleResolves(currentStep)
  /\ Get(previewData, currentStep.navigationRule[1].fieldId) = Str("")

(***************************************************************************)
(* C26: after any sequence of addStep, deleteStep, page-tab selection,     *)
(* Previous, executeNavigation, createNewFlow and loadFlow of a saved      *)
(* flow, the flow has at least one step and currentStepIndex designates    *)
(* one of its steps.                                                       *)
(***************************************************************************)
C26_CurrentStepExists ==
  /\ Len(parsedSteps) >= 1
  /\ 0 <= currentStepIndex
  /\ currentStepIndex < Len(parsedSteps)

\* C26 witness: a saved flow has been loaded and pages deleted from it, and
\* the last of the pages that are left is the current one.
C26_Witness ==
  /\ ~isNewFlow
  /\ savedFlows # <<>>
  /\ Len(parsedSteps) < Len(savedFlows[1].steps)
  /\ currentStepIndex > 0
  /\ currentStepIndex = Len(parsedSteps) - 1

(***************************************************************************)
(* C27: the outcome of executeNavigation does not depend on the answers of *)
(* fields that are not visible: the step it takes is the step it would     *)
(* take on the answer record without the answers of the hidden fields,     *)
(* when the same fields are visible under both records.                    *)
(***************************************************************************)
VisibleUnder(step, data) ==
  {i \in 1..Len(step.fields) : isFieldVisibleIn(step, data, step.fields[i])}

\* the answers of the fields that are visible
VisibleAnswers(step, data) ==
  [id \in DOMAIN data \cap
          {step.fields[i].id : i \in VisibleUnder(step, data)} |-> data[id]]

C27_HiddenAnswersIgnored ==
  [][(/\ NavStep
      /\ VisibleUnder(currentStep, VisibleAnswers(currentStep, previewData))
           = VisibleUnder(currentStep, previewData))
       => LET out == navigationOutcome(
                       parsedSteps, currentStepIndex,
                       VisibleAnswers(currentStep, previewData),
                       saveStatus, previewMode)
          IN /\ nav'.result = out.result
             /\ currentStepIndex' = out.index]_vars

(***************************************************************************)
(* C28: in preview mode, whenever the step shown as current changes (the   *)
(* index moves or another step object takes its place), previewData is     *)
(* empty afterwards.                                                       *)
(***************************************************************************)
CurrentStepChanges ==
  \/ currentStepIndex' # currentStepIndex
  \/ parsedRefs'[currentStepIndex' + 1] # parsedRefs[currentStepIndex + 1]

C28_AnswersClearedOnStepChange ==
  [][(previewMode /\ previewMode' /\ CurrentStepChanges)
       => previewData' = EmptyData]_vars

(***************************************************************************)
(* C29: after deleteField(id) on the current step no field with that id    *)
(* remains, no remaining field depends on id (dependsOn and showWhen of    *)
(* the fields that did are cleared), the navigationRule is removed if its  *)
(* fieldId was id, and the other fields keep their order and attributes.   *)
(* The field deleted is the selected one; no other handler of SpecDelete   *)
(* shortens the field list.                                                *)
(***************************************************************************)
DeleteFieldStep ==
  /\ currentStepIndex' = currentStepIndex
  /\ Len(currentStep'.fields) < Len(currentStep.fields)

\* the fields other than id, in their order
Others(fields, id) ==
  LET keep(f) == f.id # id IN SelectSeq(fields, keep)

C29_DeleteFieldCleans ==
  [][DeleteFieldStep
       => LET id == selectedFieldId
              before == Others(currentStep.fields, id)
              after == currentStep'.fields
          IN /\ \A k \in 1..Len(after) :
                  after[k].id # id /\ after[k].dependsOn # id
             /\ Len(after) = Len(before)
             /\ \A k \in 1..Len(before) :
                  IF before[k].dependsOn = id
                  THEN /\ after[k].dependsOn = NoString
                       /\ after[k].showWhen = NoString
                       /\ [after[k] EXCEPT !.dependsOn = before[k].dependsOn,
                                           !.showWhen = before[k].showWhen]
                            = before[k]
                  ELSE after[k] = before[k]
             /\ currentStep'.navigationRule =
                  IF currentStep.navigationRule # <<>>
                     /\ currentStep.navigationRule[1].fieldId = id
                  THEN <<>> ELSE currentStep.navigationRule]_vars

\* C29 witness: "color" is gone from the first page, and so are the rule on
\* it and the dependency of "city" on it, which every first page of
\* DeleteFlows starts with when its rule and its dependency name "color".
C29_Witness ==
  /\ findField(parsedSteps[1].fields, "color") = 0
  /\ findField(parsedSteps[1].fields, "heading") # 0
  /\ findField(parsedSteps[1].fields, "city") # 0
  /\ parsedSteps[1].navigationRule = <<>>
  /\ LET city == parsedSteps[1].fields[findField(parsedSteps[1].fields,
                                                  "city")]
     IN city.dependsOn = NoString /\ city.showWhen = NoString

(***************************************************************************)
(* C30: deleteStep of a step other than the current one leaves the same    *)
(* step selected: currentStepIndex designates afterwards the step object   *)
(* it designated before.  On a flow of exactly one step deleteStep is      *)
(* refused and the flow is as it was.  In SpecDeleteStep a step that       *)
(* shortens the flow is a step of deleteStep.                              *)
(***************************************************************************)
C30_DeleteStepKeepsSelection ==
  [][/\ (/\ Len(parsedRefs') = Len(parsedRefs) - 1
         /\ parsedRefs[currentStepIndex + 1] \in Range(parsedRefs'))
          => /\ currentStepIndex' \in 0..(Len(parsedRefs') - 1)
             /\ parsedRefs'[currentStepIndex' + 1]
                  = parsedRefs[currentStepIndex + 1]
             /\ parsedSteps'[currentStepIndex' + 1] = currentStep
     /\ (Len(parsedSteps) = 1 /\ Len(parsedSteps') <= 1)
          => /\ parsedSteps' = parsedSteps
             /\ parsedRefs' = parsedRefs
             /\ currentStepIndex' = currentStepIndex]_vars

\* C30 witness: pages have been deleted until one that is not the first page
\* of the new flow is left, and deleteStep has been refused on it.
C30_Witness ==
  /\ saveStatus = "Cannot delete the last page"
  /\ Len(parsedSteps) = 1
  /\ parsedSteps[1].name # "Page 1"

\* C30 witness: the first of three pages has been deleted and the page that
\* was added last is the current one.
C30_WitnessShifted ==
  /\ Len(parsedSteps) = 2
  /\ parsedSteps[1].name = "Page 2"
  /\ parsedSteps[2].name = "Page 3"
  /\ currentStepIndex = 1

====
